---- MODULE Spec2Model ----
(***************************************************************************)
(* Grid bot order-lifecycle engine of the AI trading assistant:           *)
(* services/grid_bot_service.py (create / stop / delete),                  *)
(* services/order_execution_service.py (tick and order routing) and        *)
(* models/db.py (auto-committing persistence).                             *)
(*                                                                         *)
(* Money amounts are integers.  A level price is kept exactly, as the      *)
(* record [base, top, k, den, geo] that stands for                         *)
(*     base + k * (top - base) / den          (arithmetic, geo = FALSE)    *)
(*     base * (top / base) ^ (k / den)        (geometric,  geo = TRUE)     *)
(* so the divisions and roots of the code are compared by cross            *)
(* multiplication instead of being rounded.                                *)
(***************************************************************************)
EXTENDS Integers, Sequences, FiniteSets, TLC

\* ------------------------------------------------------------------ bounds
MaxPrice == 2        \* grid bounds range over 0..MaxPrice (whole units)
MaxGrid == 3         \* largest accepted grid_count that is enumerated
MaxInvest == 2       \* accepted investments range over 1..MaxInvest
MaxBalance == 2      \* every user starts with this balance
MaxBots == 1         \* bot rows ever inserted
MaxLog == 1          \* trade log rows ever inserted
MaxThreads == 2      \* request threads that run calls concurrently
MaxCalls == 2        \* calls one thread starts when the threads interleave
MaxConfidenceGap == 1  \* confidences range this far around the threshold
MaxDcaOrders == 1    \* accepted max_dca_orders range over 1..MaxDcaOrders
MaxRuns == 2         \* trade log rows the DCA cycles may bring the log to
MaxOrders == 3       \* bot_orders rows ever inserted

\* ------------------------------------------------------- program constants
MIN_GRID_COUNT == 2
MAX_GRID_COUNT == 100
MAX_TAKE_PROFIT == 1000
DEFAULT_PRICE == 45000      \* whole units; market prices are in hundredths
Hundredths == 100           \* 1.01 is BUY_BAND / Hundredths
BUY_BAND == 101
SELL_BAND == 99
CONFIDENCE_THRESHOLD == 60
MAX_PERCENT == 100
MAX_DCA_ORDERS == 100
MAX_MULTIPLIER == 10
Tenths == 10
MAX_TRADE_AMOUNT_USD == 1000

\* a missing value (None, NULL); a present value v is <<v>>
None == <<>>
Users == {1, 2}
UnknownUser == Cardinality(Users) + 1
Accounts == {1, 2}           \* exchange account i belongs to user i

VARIABLES
    balance,                 \* users.balance
    grid_bots,               \* rows of grid_bots
    grid_levels,             \* rows of grid_levels
    exchange_trade_logs,     \* rows of exchange_trade_logs, in insertion order
    next_bot_id,             \* next rowid of grid_bots
    next_level_id,           \* next rowid of grid_levels
    initial_balance,         \* balance at start (history, for the capital laws)
    result,                  \* what the last call returned
    tasks,                   \* the calls in progress, one per request thread
    gate,                    \* the last trend-gate decision and its inputs
    dca_bots,                \* rows of dca_bots
    trading_bots,            \* rows of trading_bots
    bot_orders,              \* rows of bot_orders
    sqlite_sequence          \* last rowid handed out, per table of the three

vars == <<balance, grid_bots, grid_levels, exchange_trade_logs,
          next_bot_id, next_level_id, initial_balance, result, tasks, gate,
          dca_bots, trading_bots, bot_orders, sqlite_sequence>>

\* the tables the grid bot service never touches
other_tables == <<dca_bots, trading_bots, bot_orders, sqlite_sequence>>

\* ------------------------------------------------------------ pure helpers
RECURSIVE Pow(_, _)
Pow(b, e) == IF e = 0 THEN 1 ELSE b * Pow(b, e - 1)

RECURSIVE SumOver(_, _)
SumOver(S, f) ==
    IF S = {} THEN 0
    ELSE LET x == CHOOSE y \in S : TRUE IN f[x] + SumOver(S \ {x}, f)

\* a * L <= b * p  for the exact level price L  (a, b, p integers >= 0)
LevelTimesLeq(a, L, bp) ==
    IF ~L.geo
    THEN a * (L.base * L.den + L.k * (L.top - L.base)) <= bp * L.den
    ELSE IF a * L.top <= bp THEN TRUE
         ELSE IF a * L.base > bp THEN FALSE
         ELSE Pow(a, L.den) * Pow(L.base, L.den - L.k) * Pow(L.top, L.k)
                  <= Pow(bp, L.den)

\* b * p <= a * L
LevelTimesGeq(a, L, bp) ==
    IF ~L.geo
    THEN a * (L.base * L.den + L.k * (L.top - L.base)) >= bp * L.den
    ELSE IF a * L.base >= bp THEN TRUE
         ELSE IF a * L.top < bp THEN FALSE
         ELSE Pow(a, L.den) * Pow(L.base, L.den - L.k) * Pow(L.top, L.k)
                  >= Pow(bp, L.den)

\* L1 < L2 as prices
PriceLess(L1, L2) ==
    IF ~L1.geo /\ ~L2.geo
    THEN (L1.base * L1.den + L1.k * (L1.top - L1.base)) * L2.den
             < (L2.base * L2.den + L2.k * (L2.top - L2.base)) * L1.den
    ELSE L1.k < L2.k

\* a lookup by id alone, whoever asks
BotRowsAnyUser(bot_id, user_id) == {b \in grid_bots : b.id = bot_id}

\* exact value of an arithmetic level price as the fraction PriceNum / PriceDen
PriceNum(L) == L.base * L.den + L.k * (L.top - L.base)

PriceDen(L) == L.den

\* "SELECT * FROM grid_bots WHERE id = ? AND user_id = ?": no row or one row
BotRows(bot_id, user_id) ==
    {b \in grid_bots : b.id = bot_id /\ b.user_id = user_id}

TheRow(rows) == CHOOSE b \in rows : TRUE

LevelsOf(bot_id) == {l \in grid_levels : l.bot_id = bot_id}

\* the rows of S in ascending price order (ORDER BY level_price ASC)
RECURSIVE SortByPrice(_)
SortByPrice(S) ==
    IF S = {} THEN <<>>
    ELSE LET m == CHOOSE x \in S :
                     \A y \in S \ {x} : PriceLess(x.level_price, y.level_price)
                                        \/ (~PriceLess(y.level_price, x.level_price)
                                            /\ x.id < y.id)
         IN <<m>> \o SortByPrice(S \ {m})

\* what a call hands back: the success flag of the returned dict and the
\* fields of it that the engine's callers read; orders lists the levels an
\* order was issued for during the call, placed counts its calls of
\* exchange_client.place_market_order; raised: it ended in an exception
Reply(op, success) ==
    [op |-> op, success |-> success, bot_id |-> 0, current_price |-> 0,
     returned_investment |-> 0, executed_levels |-> <<>>, orders |-> <<>>,
     placed |-> 0, raised |-> FALSE]

\* ---------------------------------------------------------- create_grid_bot
\* STEP 1 of create_grid_bot, the checks of the arguments: the first one that
\* fails, or "none"
ValidateConfig(a) ==
    IF a.grid_count < MIN_GRID_COUNT THEN "Grid count must be at least 2"
    ELSE IF a.grid_count > MAX_GRID_COUNT THEN "Grid count too large (max 100)"
    ELSE IF a.lower_price >= a.upper_price
         THEN "Upper price must be greater than lower price"
    ELSE IF a.lower_price <= 0 \/ a.upper_price <= 0 THEN "Prices must be positive"
    ELSE IF a.investment_amount <= 0 THEN "Investment amount must be positive"
    ELSE IF a.grid_type \notin {"ARITHMETIC", "GEOMETRIC"}
         THEN "Grid type must be ARITHMETIC or GEOMETRIC"
    ELSE IF a.grid_trigger_price # None /\ a.grid_trigger_price[1] <= 0
         THEN "Trigger price must be positive"
    ELSE IF a.take_profit_pct # None
            /\ (a.take_profit_pct[1] <= 0
                \/ a.take_profit_pct[1] > MAX_TAKE_PROFIT)
         THEN "Take profit % must be between 0 and 1000"
    ELSE IF a.stop_loss_price # None /\ a.stop_loss_price[1] <= 0
         THEN "Stop loss price must be positive"
    ELSE "none"

\* a funds check that looks the user up and never compares the balance
CheckFundsUserOnly(a) ==
    IF a.user_id \notin Users THEN "User not found" ELSE "none"

\* STEP 1, the checks against the users table
CheckFunds(a) ==
    IF a.user_id \notin Users THEN "User not found"
    ELSE IF balance[a.user_id] < a.investment_amount THEN "Insufficient balance"
    ELSE "none"

\* STEP 1 of create_grid_bot: the first failing check, or "none"
CreateError(a) ==
    IF ValidateConfig(a) # "none" THEN ValidateConfig(a) ELSE CheckFunds(a)

\* STEP 3: number of levels and the divisor of the price step
LevelCount(grid_count) == grid_count

\* a step that divides the range by the number of levels
StepDivisorCount(grid_count) == grid_count

StepDivisor(grid_count) == grid_count - 1

\* a split that also tags the middle index BUY
IsBuyIndexInclusive(i, grid_count) == i <= grid_count \div 2

\* STEP 3: index i (from 0) is a BUY level
IsBuyIndex(i, grid_count) == i < grid_count \div 2

\* STEP 3: grid_levels, the list built before it is stored
CalcGridLevels(lower_price, upper_price, grid_count, grid_type) ==
    [n \in 1..LevelCount(grid_count) |->
        [level_price |-> [base |-> lower_price, top |-> upper_price, k |-> n - 1,
                          den |-> StepDivisor(grid_count),
                          geo |-> (grid_type = "GEOMETRIC")],
         order_type |-> IF IsBuyIndex(n - 1, grid_count) THEN "BUY" ELSE "SELL",
         level_number |-> n]]

\* the writes of one call that fail (db.execute_query returning None)
NoFaults == [bot |-> FALSE, levels |-> {}, balance |-> FALSE]

CreateFaults(a) ==
    [bot : BOOLEAN, levels : SUBSET (1..a.grid_count), balance : BOOLEAN]

\* STEP 4: the rows stored for the level list, skipping the failed inserts
RECURSIVE LevelRows(_, _, _, _, _)
LevelRows(levels, n, bot_id, id, failed) ==
    IF n > Len(levels) THEN {}
    ELSE IF n \in failed THEN LevelRows(levels, n + 1, bot_id, id, failed)
    ELSE {[id |-> id, bot_id |-> bot_id, level_price |-> levels[n].level_price,
           order_type |-> levels[n].order_type, is_filled |-> 0,
           filled_at |-> None]}
         \cup LevelRows(levels, n + 1, bot_id, id + 1, failed)

CreateGridBot(a, f) ==
    LET err == CreateError(a) IN
    /\ err = "none" => next_bot_id <= MaxBots
    /\ UNCHANGED <<exchange_trade_logs, initial_balance>>
    /\ IF err # "none"
       THEN /\ result' = Reply("create", FALSE)
            /\ UNCHANGED <<balance, grid_bots, grid_levels, next_bot_id, next_level_id>>
       ELSE IF f.bot
       THEN /\ result' = Reply("create", FALSE)
            /\ UNCHANGED <<balance, grid_bots, grid_levels, next_bot_id, next_level_id>>
       ELSE LET levels == CalcGridLevels(a.lower_price, a.upper_price,
                                         a.grid_count, a.grid_type)
                rows == LevelRows(levels, 1, next_bot_id, next_level_id, f.levels)
            IN /\ grid_bots' = grid_bots \cup
                      {[id |-> next_bot_id, user_id |-> a.user_id,
                        lower_price |-> a.lower_price, upper_price |-> a.upper_price,
                        grid_count |-> a.grid_count,
                        investment_amount |-> a.investment_amount,
                        grid_type |-> a.grid_type, is_active |-> 1]}
               /\ next_bot_id' = next_bot_id + 1
               /\ grid_levels' = grid_levels \cup rows
               /\ next_level_id' = next_level_id + Cardinality(rows)
               /\ balance' = IF f.balance THEN balance
                             ELSE [balance EXCEPT ![a.user_id] = @ - a.investment_amount]
               /\ result' = [Reply("create", TRUE) EXCEPT !.bot_id = next_bot_id]

\* ------------------------------------------------------------ stop_grid_bot
\* balances explored: credits that would pass it are not taken
BalanceCap == 2 * MaxBalance

StopFaults == [state : BOOLEAN, balance : BOOLEAN]

NoStopFaults == [state |-> FALSE, balance |-> FALSE]

\* the bot row after "UPDATE grid_bots SET is_active = 0"
Stopped(bot) == [bot EXCEPT !.is_active = 0]

\* a stop that returns nothing
StopCreditNone(bot) == 0

\* the amount stop_grid_bot adds to the owner's balance
StopCredit(bot) == bot.investment_amount

StopGridBot(bot_id, user_id, f) ==
    LET found == BotRows(bot_id, user_id)
        bot == TheRow(found)
    IN
    /\ UNCHANGED <<grid_levels, exchange_trade_logs,
                   next_bot_id, next_level_id, initial_balance>>
    /\ IF found = {}
       THEN /\ result' = Reply("stop", FALSE)
            /\ UNCHANGED <<balance, grid_bots>>
       ELSE /\ balance[user_id] + StopCredit(bot) <= BalanceCap
            /\ grid_bots' = IF f.state THEN grid_bots
                            ELSE (grid_bots \ {bot}) \cup {Stopped(bot)}
            /\ balance' = IF f.balance THEN balance
                          ELSE [balance EXCEPT ![user_id] = @ + StopCredit(bot)]
            /\ result' = [Reply("stop", TRUE)
                            EXCEPT !.returned_investment = bot.investment_amount]

\* ---------------------------------------------------------- delete_grid_bot
\* the amount delete_grid_bot adds to the owner's balance
DeleteCredit(bot) == IF bot.is_active = 1 THEN bot.investment_amount ELSE 0

\* grid_levels after "DELETE FROM grid_bots WHERE id = ?": the level rows go
\* only when the connection enforces the ON DELETE CASCADE of the schema
LevelsAfterDelete(bot_id, foreign_keys) ==
    IF foreign_keys THEN grid_levels \ LevelsOf(bot_id) ELSE grid_levels

DeleteGridBot(bot_id, user_id, foreign_keys, f) ==
    LET found == BotRows(bot_id, user_id)
        bot == TheRow(found)
    IN
    /\ UNCHANGED <<exchange_trade_logs,
                   next_bot_id, next_level_id, initial_balance>>
    /\ IF found = {}
       THEN /\ result' = Reply("delete", FALSE)
            /\ UNCHANGED <<balance, grid_bots, grid_levels>>
       ELSE /\ balance[user_id] + DeleteCredit(bot) <= BalanceCap
            /\ balance' = IF f.balance THEN balance
                          ELSE [balance EXCEPT ![user_id] = @ + DeleteCredit(bot)]
            /\ grid_bots' = IF f.state THEN grid_bots ELSE grid_bots \ {bot}
            /\ grid_levels' = IF f.state THEN grid_levels ELSE LevelsAfterDelete(bot_id, foreign_keys)
            /\ result' = Reply("delete", TRUE)

\* ------------------------------------------------------------ price source
\* price_service.get_latest_price(...)['close_price'], else the 45000 fallback
\* (in hundredths; price_data is the latest row of price_history, or None)
LatestPrice(price_data) ==
    IF price_data = None THEN DEFAULT_PRICE * Hundredths ELSE price_data[1]

\* ------------------------------------------------------------ order router
\* get_exchange_account_by_id(account_id, user_id): the account is the user's
AccountFound(account_id, user_id) == account_id \in Accounts /\ account_id = user_id

\* what the exchange side does with one LIVE order
LiveOutcomes == {"no_client", "rejected", "raised", "closed", "no_status"}

Outcomes(is_live_mode) == IF is_live_mode THEN LiveOutcomes ELSE {"simulated"}

\* the trade_source of a bot's orders: f'grid_bot_{bot_id}', f'dca_bot_{bot_id}'
TradeSource(kind, bot_id) == <<kind, bot_id>>

\* a log row whose total is never computed
LogTradeExecutionNoTotal(log, user_id, account_id, side, amount, price, status, order_id, source, error) ==
    Append(log, [user_id |-> user_id, exchange_account_id |-> account_id,
                 side |-> side, amount |-> amount, price |-> price,
                 total_value |-> [num |-> 0, den |-> 1],
                 status |-> status, exchange_order_id |-> order_id,
                 trade_source |-> source, error_message |-> error])

\* a log that keeps only its latest row
LogTradeExecutionOverwrite(log, user_id, account_id, side, amount, price, status, order_id, source, error) ==
    <<[user_id |-> user_id, exchange_account_id |-> account_id,
       side |-> side, amount |-> amount, price |-> price,
       total_value |-> IF price > 0
                       THEN [num |-> amount.num * price, den |-> amount.den]
                       ELSE [num |-> 0, den |-> 1],
       status |-> status, exchange_order_id |-> order_id,
       trade_source |-> source, error_message |-> error]>>

\* log_trade_execution: the row appended to exchange_trade_logs
LogTradeExecution(log, user_id, account_id, side, amount, price, status, order_id, source, error) ==
    Append(log, [user_id |-> user_id, exchange_account_id |-> account_id,
                 side |-> side, amount |-> amount, price |-> price,
                 total_value |-> IF price > 0
                                 THEN [num |-> amount.num * price, den |-> amount.den]
                                 ELSE [num |-> 0, den |-> 1],
                 status |-> status, exchange_order_id |-> order_id,
                 trade_source |-> source, error_message |-> error])

\* the status logged for an order the exchange accepted
LiveStatus(outcome) ==
    IF outcome = "closed" THEN "CLOSED" ELSE "FILLED"

\* execute_market_order_for_account: [success, log] for the order of one level
\* (the average price an exchange reports for a filled order is the market price)
ExecuteMarketOrderForAccount(log, user_id, account_id, side, amount, is_live_mode, source, price_data, outcome) ==
    IF ~AccountFound(account_id, user_id)
    THEN [success |-> FALSE, placed |-> 0, log |-> log]
    ELSE IF ~is_live_mode
    THEN [success |-> TRUE, placed |-> 0,
          log |-> LogTradeExecution(log, user_id, account_id, side, amount,
                                    LatestPrice(price_data), "SIMULATED", <<"SIM">>,
                                    source, None)]
    ELSE IF outcome = "no_client"
    THEN [success |-> FALSE, placed |-> 0, log |-> log]
    ELSE IF outcome = "rejected"
    THEN [success |-> FALSE, placed |-> 1,
          log |-> LogTradeExecution(log, user_id, account_id, side, amount, 0,
                                    "ERROR", None, source,
                                    <<"Exchange rejected the order">>)]
    ELSE IF outcome = "raised"
    THEN [success |-> FALSE, placed |-> 1,
          log |-> LogTradeExecution(log, user_id, account_id, side, amount, 0,
                                    "ERROR", None, source, <<"exception">>)]
    ELSE [success |-> TRUE, placed |-> 1,
          log |-> LogTradeExecution(log, user_id, account_id, side, amount,
                                    LatestPrice(price_data), LiveStatus(outcome),
                                    <<"EX">>, source, None)]

\* ------------------------------------------------------ execute_grid_bot_levels
\* an eligibility test without the 1% tolerance
ShouldExecuteNoBand(level, current_price) ==
    \/ level.order_type = "BUY"
       /\ LevelTimesGeq(Hundredths, level.level_price, current_price)
    \/ level.order_type = "SELL"
       /\ LevelTimesLeq(Hundredths, level.level_price, current_price)

\* the eligibility test of the loop, for a level that is not filled
ShouldExecute(level, current_price) ==
    \/ level.order_type = "BUY"
       /\ LevelTimesGeq(BUY_BAND, level.level_price, current_price)
    \/ level.order_type = "SELL"
       /\ LevelTimesLeq(SELL_BAND, level.level_price, current_price)

\* an update that sets the flag and leaves the timestamp
MarkFilledNoStamp(level) == [level EXCEPT !.is_filled = 1]

\* "UPDATE grid_levels SET is_filled = 1, filled_at = datetime('now') WHERE id = ?"
MarkFilled(level) == [level EXCEPT !.is_filled = 1, !.filled_at = <<"now">>]

\* the per-order amount: the argument, or investment / grid_count
AmountPerOrder(bot, amount_per_order) ==
    IF amount_per_order = None \/ amount_per_order[1] = 0
    THEN [num |-> bot.investment_amount, den |-> bot.grid_count]
    ELSE [num |-> amount_per_order[1], den |-> 1]

\* the loop over levels[n..], threading the log, the level rows, the
\* executed_levels list and the orders issued
RECURSIVE RunLevels(_, _, _, _)
RunLevels(levels, n, c, acc) ==
    IF n > Len(levels) THEN acc
    ELSE LET level == levels[n] IN
         IF level.is_filled = 1 \/ ~ShouldExecute(level, c.current_price)
         THEN RunLevels(levels, n + 1, c, acc)
         ELSE LET r == ExecuteMarketOrderForAccount(
                           acc.log, c.user_id, c.account_id,
                           IF level.order_type = "BUY" THEN "BUY" ELSE "SELL",
                           c.amount, c.LIVE_TRADING_ENABLED,
                           TradeSource("grid_bot", c.bot_id),
                           c.price_data, c.outcome[level.id])
                  issued == [acc EXCEPT !.log = r.log,
                                        !.placed = @ + r.placed,
                                        !.orders = Append(@, level.id)]
              IN RunLevels(levels, n + 1, c,
                     IF r.success
                     THEN [issued EXCEPT
                             !.rows = (@ \ {level}) \cup {MarkFilled(level)},
                             !.executed = Append(@, level.id)]
                     ELSE issued)

\* the ids of the levels of a bot that the loop will issue an order for
Eligible(bot_id, current_price) ==
    {l.id : l \in {x \in LevelsOf(bot_id) :
                      x.is_filled = 0 /\ ShouldExecute(x, current_price)}}

ExecuteGridBotLevels(user_id, bot_id, account_id, amount_per_order, LIVE_TRADING_ENABLED, price_data, outcome) ==
    LET found == BotRows(bot_id, user_id)
        bot == TheRow(found)
        c == [user_id |-> user_id, bot_id |-> bot_id, account_id |-> account_id,
              amount |-> AmountPerOrder(bot, amount_per_order),
              current_price |-> LatestPrice(price_data), price_data |-> price_data,
              LIVE_TRADING_ENABLED |-> LIVE_TRADING_ENABLED, outcome |-> outcome]
        end == RunLevels(SortByPrice(LevelsOf(bot_id)), 1, c,
                         [log |-> exchange_trade_logs, rows |-> grid_levels,
                          executed |-> <<>>, orders |-> <<>>, placed |-> 0])
    IN
    /\ UNCHANGED <<balance, grid_bots, next_bot_id, next_level_id, initial_balance>>
    /\ IF found = {}
       THEN /\ result' = Reply("tick", FALSE)
            /\ UNCHANGED <<grid_levels, exchange_trade_logs>>
       ELSE /\ Len(end.log) <= MaxLog
            /\ grid_levels' = end.rows
            /\ exchange_trade_logs' = end.log
            \* the return statement reads is_live_mode, which this function
            \* never binds: the call ends in a NameError after the loop
            /\ result' = [Reply("tick", FALSE)
                            EXCEPT !.bot_id = bot_id,
                                   !.current_price = c.current_price,
                                   !.executed_levels = end.executed,
                                   !.orders = end.orders,
                                   !.placed = end.placed,
                                   !.raised = TRUE]

\* ------------------------------------------------------------ specification
\* the request threads of the web server, each running one call at a time
Threads == 1..MaxThreads

\* a thread between two calls
Idle == [pc |-> "idle", calls |-> 0]

\* no trend gate has been asked yet
NoGate == [kind |-> "none"]

Init ==
    /\ balance = [u \in Users |-> MaxBalance]
    /\ initial_balance = balance
    /\ grid_bots = {}
    /\ grid_levels = {}
    /\ exchange_trade_logs = <<>>
    /\ next_bot_id = 1
    /\ next_level_id = 1
    /\ result = Reply("init", TRUE)
    /\ tasks = [p \in Threads |-> Idle]
    /\ gate = NoGate
    /\ dca_bots = {}
    /\ trading_bots = {}
    /\ bot_orders = {}
    /\ sqlite_sequence = [t \in {"dca_bots", "trading_bots", "bot_orders"} |-> 0]

\* the arguments a caller passes to create_grid_bot: every accepted shape,
\* and one argument record per way of being rejected
BaseArgs ==
    [user_id |-> 1, lower_price |-> 1, upper_price |-> MaxPrice,
     grid_count |-> MaxGrid, investment_amount |-> 1, grid_type |-> "ARITHMETIC",
     grid_trigger_price |-> None, take_profit_pct |-> None, stop_loss_price |-> None]

PriceRanges == {r \in (1..MaxPrice) \X (1..MaxPrice) : r[1] < r[2]}

AcceptedArgs ==
    {[user_id |-> u, lower_price |-> r[1], upper_price |-> r[2],
      grid_count |-> n, investment_amount |-> inv, grid_type |-> t,
      grid_trigger_price |-> None, take_profit_pct |-> None,
      stop_loss_price |-> None] :
        u \in Users, r \in PriceRanges,
        n \in MIN_GRID_COUNT..MaxGrid, inv \in 1..MaxInvest,
        t \in {"ARITHMETIC", "GEOMETRIC"}}
    \cup {[BaseArgs EXCEPT !.grid_trigger_price = <<1>>, !.take_profit_pct = <<1>>,
                           !.stop_loss_price = <<1>>]}

RejectedArgs ==
    {[BaseArgs EXCEPT !.grid_count = MIN_GRID_COUNT - 1],
     [BaseArgs EXCEPT !.grid_count = MAX_GRID_COUNT + 1],
     [BaseArgs EXCEPT !.lower_price = 0],
     [BaseArgs EXCEPT !.lower_price = MaxPrice],
     [BaseArgs EXCEPT !.investment_amount = 0],
     [BaseArgs EXCEPT !.investment_amount = BalanceCap + 1],
     [BaseArgs EXCEPT !.grid_type = "FIBONACCI"],
     [BaseArgs EXCEPT !.grid_trigger_price = <<0>>],
     [BaseArgs EXCEPT !.take_profit_pct = <<0>>],
     [BaseArgs EXCEPT !.take_profit_pct = <<MAX_TAKE_PROFIT + 1>>],
     [BaseArgs EXCEPT !.stop_loss_price = <<0>>],
     [BaseArgs EXCEPT !.user_id = UnknownUser]}

CreateArgs == AcceptedArgs \cup RejectedArgs

BotIds == 1..MaxBots

\* the latest row of price_history a call finds: none, or a market price one
\* hundredth above a whole price or one hundredth below it
PriceData ==
    {None} \cup {<<q * Hundredths + 1>> : q \in 1..(MaxPrice - 1)}
           \cup {<<q * Hundredths - 1>> : q \in 2..MaxPrice}

\* a call that runs alone, from its first statement to its return
Alone == UNCHANGED <<tasks, gate, other_tables>>

Create == \E a \in CreateArgs : CreateGridBot(a, NoFaults) /\ Alone

Stop == \E b \in BotIds, u \in Users : StopGridBot(b, u, NoStopFaults) /\ Alone

Delete ==
    \E b \in BotIds, u \in Users, fk \in BOOLEAN :
        DeleteGridBot(b, u, fk, NoStopFaults) /\ Alone

\* a tick for a bot the caller does not own, or that does not exist
TickNotFound ==
    \E u \in Users, b \in BotIds :
        /\ BotRows(b, u) = {}
        /\ ExecuteGridBotLevels(u, b, u, None, FALSE, None, <<>>)
        /\ Alone

\* a tick through an exchange account that is not the caller's
TickNoAccount ==
    \E u \in Users, b \in BotIds, acc \in Accounts, pd \in PriceData :
        /\ BotRows(b, u) # {}
        /\ ~AccountFound(acc, u)
        /\ ExecuteGridBotLevels(u, b, acc, None, FALSE, pd,
                                [l \in Eligible(b, LatestPrice(pd)) |-> "simulated"])
        /\ Alone

Tick ==
    \E u \in Users, b \in BotIds, amt \in {None, <<1>>},
       live \in BOOLEAN, pd \in PriceData :
        /\ BotRows(b, u) # {}
        /\ \E o \in [Eligible(b, LatestPrice(pd)) -> Outcomes(live)] :
               ExecuteGridBotLevels(u, b, u, amt, live, pd, o)
        /\ Alone

Next == Create \/ Stop \/ Delete \/ Tick \/ TickNoAccount \/ TickNotFound

Spec == Init /\ [][Next]_vars

\* grid_bot_service over a store whose writes can fail: each db.execute_query
\* of a call commits on its own, or fails and is ignored by the caller
CreateF ==
    \E a \in CreateArgs :
        \E f \in IF CreateError(a) = "none" THEN CreateFaults(a) ELSE {NoFaults} :
            CreateGridBot(a, f) /\ Alone

StopF ==
    \E b \in BotIds, u \in Users : \E f \in StopFaults : StopGridBot(b, u, f) /\ Alone

DeleteF ==
    \E b \in BotIds, u \in Users, fk \in BOOLEAN :
        \E f \in StopFaults : DeleteGridBot(b, u, fk, f) /\ Alone

NextF == CreateF \/ StopF \/ DeleteF

SpecF == Init /\ [][NextF]_vars

\* ------------------------------------------------------ concurrent requests
\* The web server runs every request on a thread of its own, and every
\* db.execute_query / fetch opens a connection and commits by itself: two calls
\* interleave between any two of their statements that touch the database.
\* A thread's record holds the local variables of the call it is running.
Task(p) == tasks[p]

CanStart(p) == Task(p).pc = "idle" /\ Task(p).calls < MaxCalls

\* the thread is back between calls, one call more behind it
Finished(p) == [pc |-> "idle", calls |-> Task(p).calls]

\* the configurations the interleaved create calls are given
ConcurrentArgs ==
    {[BaseArgs EXCEPT !.grid_count = MIN_GRID_COUNT, !.investment_amount = inv] :
        inv \in 1..MaxInvest}

\* create_grid_bot, STEP 1: the checks, with the SELECT of the user's balance
BeginCreate(p, a) ==
    /\ CanStart(p)
    /\ UNCHANGED <<balance, grid_bots, grid_levels, exchange_trade_logs,
                   next_bot_id, next_level_id, initial_balance, gate, other_tables>>
    /\ IF CreateError(a) # "none"
       THEN /\ result' = Reply("create", FALSE)
            /\ tasks' = [tasks EXCEPT ![p] = [pc |-> "idle", calls |-> @.calls + 1]]
       ELSE /\ result' = result
            /\ tasks' = [tasks EXCEPT ![p] =
                            [pc |-> "create_bot", calls |-> @.calls + 1, a |-> a,
                             user |-> [balance |-> balance[a.user_id]]]]

\* create_grid_bot, STEP 2: the INSERT of the bot row
InsertBot(p) ==
    LET t == Task(p) IN
    /\ t.pc = "create_bot"
    /\ grid_bots' = grid_bots \cup
           {[id |-> next_bot_id, user_id |-> t.a.user_id,
             lower_price |-> t.a.lower_price, upper_price |-> t.a.upper_price,
             grid_count |-> t.a.grid_count,
             investment_amount |-> t.a.investment_amount,
             grid_type |-> t.a.grid_type, is_active |-> 1]}
    /\ next_bot_id' = next_bot_id + 1
    /\ tasks' = [tasks EXCEPT ![p] =
                    [pc |-> "create_levels", calls |-> t.calls, a |-> t.a,
                     user |-> t.user, bot_id |-> next_bot_id]]
    /\ UNCHANGED <<balance, grid_levels, exchange_trade_logs, next_level_id,
                   initial_balance, result, gate, other_tables>>

\* create_grid_bot, STEPs 3 and 4: the level list and its INSERTs (taken as
\* one step: nothing else writes the levels of a bot that is being created)
InsertLevels(p) ==
    LET t == Task(p)
        levels == CalcGridLevels(t.a.lower_price, t.a.upper_price,
                                 t.a.grid_count, t.a.grid_type)
        rows == LevelRows(levels, 1, t.bot_id, next_level_id, {})
    IN
    /\ t.pc = "create_levels"
    /\ grid_levels' = grid_levels \cup rows
    /\ next_level_id' = next_level_id + Cardinality(rows)
    /\ tasks' = [tasks EXCEPT ![p].pc = "create_balance"]
    /\ UNCHANGED <<balance, grid_bots, exchange_trade_logs, next_bot_id,
                   initial_balance, result, gate, other_tables>>

\* create_grid_bot, STEP 5: new_balance = user['balance'] - investment_amount,
\* from the balance read in STEP 1, written with UPDATE users SET balance = ?
ReserveInvestment(p) ==
    LET t == Task(p) IN
    /\ t.pc = "create_balance"
    /\ balance' = [balance EXCEPT ![t.a.user_id] =
                      t.user.balance - t.a.investment_amount]
    /\ result' = [Reply("create", TRUE) EXCEPT !.bot_id = t.bot_id]
    /\ tasks' = [tasks EXCEPT ![p] = Finished(p)]
    /\ UNCHANGED <<grid_bots, grid_levels, exchange_trade_logs, next_bot_id,
                   next_level_id, initial_balance, gate, other_tables>>

\* stop_grid_bot: the SELECT of the bot row
BeginStop(p, bot_id, user_id) ==
    LET found == BotRows(bot_id, user_id) IN
    /\ CanStart(p)
    /\ UNCHANGED <<balance, grid_bots, grid_levels, exchange_trade_logs,
                   next_bot_id, next_level_id, initial_balance, gate, other_tables>>
    /\ IF found = {}
       THEN /\ result' = Reply("stop", FALSE)
            /\ tasks' = [tasks EXCEPT ![p] = [pc |-> "idle", calls |-> @.calls + 1]]
       ELSE /\ result' = result
            /\ tasks' = [tasks EXCEPT ![p] =
                            [pc |-> "stop_state", calls |-> @.calls + 1,
                             bot |-> TheRow(found)]]

\* stop_grid_bot: UPDATE grid_bots SET is_active = 0 WHERE id = ?
DeactivateBot(p) ==
    LET t == Task(p) IN
    /\ t.pc = "stop_state"
    /\ grid_bots' = {IF b.id = t.bot.id THEN Stopped(b) ELSE b : b \in grid_bots}
    /\ tasks' = [tasks EXCEPT ![p].pc = "stop_credit"]
    /\ UNCHANGED <<balance, grid_levels, exchange_trade_logs, next_bot_id,
                   next_level_id, initial_balance, result, gate, other_tables>>

\* stop_grid_bot: UPDATE users SET balance = balance + ? WHERE id = ?
ReturnInvestment(p) ==
    LET t == Task(p) IN
    /\ t.pc = "stop_credit"
    /\ balance' = [balance EXCEPT ![t.bot.user_id] = @ + StopCredit(t.bot)]
    /\ result' = [Reply("stop", TRUE)
                    EXCEPT !.returned_investment = t.bot.investment_amount]
    /\ tasks' = [tasks EXCEPT ![p] = Finished(p)]
    /\ UNCHANGED <<grid_bots, grid_levels, exchange_trade_logs, next_bot_id,
                   next_level_id, initial_balance, gate, other_tables>>

\* the positions from n on, in the level list a tick read, that its loop
\* issues an order for
Due(t) ==
    {k \in t.n..Len(t.levels) :
        t.levels[k].is_filled = 0 /\ ShouldExecute(t.levels[k], t.current_price)}

NextDue(t) == CHOOSE k \in Due(t) : \A j \in Due(t) : k <= j

\* execute_grid_bot_levels up to the loop: get_bot_details (bot and level
\* rows) and the latest price
BeginTick(p, user_id, bot_id, price_data) ==
    LET found == BotRows(bot_id, user_id) IN
    /\ CanStart(p)
    /\ UNCHANGED <<balance, grid_bots, grid_levels, exchange_trade_logs,
                   next_bot_id, next_level_id, initial_balance, gate, other_tables>>
    /\ IF found = {}
       THEN /\ result' = Reply("tick", FALSE)
            /\ tasks' = [tasks EXCEPT ![p] = [pc |-> "idle", calls |-> @.calls + 1]]
       ELSE /\ result' = result
            /\ tasks' = [tasks EXCEPT ![p] =
                            [pc |-> "tick_loop", calls |-> @.calls + 1,
                             user_id |-> user_id, bot_id |-> bot_id,
                             levels |-> SortByPrice(LevelsOf(bot_id)), n |-> 1,
                             amount |-> AmountPerOrder(TheRow(found), None),
                             price_data |-> price_data,
                             current_price |-> LatestPrice(price_data),
                             executed |-> <<>>, orders |-> <<>>, placed |-> 0]]

\* the loop body up to the order: execute_market_order_for_account for the
\* next level of the list that was read as not filled and is in the band
PlaceOrder(p, LIVE_TRADING_ENABLED, outcome) ==
    LET t == Task(p)
        k == NextDue(t)
        level == t.levels[k]
        r == ExecuteMarketOrderForAccount(
                 exchange_trade_logs, t.user_id, t.user_id,
                 IF level.order_type = "BUY" THEN "BUY" ELSE "SELL",
                 t.amount, LIVE_TRADING_ENABLED,
                 TradeSource("grid_bot", t.bot_id), t.price_data, outcome)
    IN
    /\ t.pc = "tick_loop"
    /\ Due(t) # {}
    /\ exchange_trade_logs' = r.log
    /\ tasks' = [tasks EXCEPT ![p].orders = Append(@, level.id),
                              ![p].placed = @ + r.placed,
                              ![p].n = IF r.success THEN k ELSE k + 1,
                              ![p].pc = IF r.success THEN "tick_mark" ELSE "tick_loop"]
    /\ UNCHANGED <<balance, grid_bots, grid_levels, next_bot_id, next_level_id,
                   initial_balance, result, gate, other_tables>>

\* the loop body after a successful order: the UPDATE that marks the level
MarkLevelFilled(p) ==
    LET t == Task(p)
        level == t.levels[t.n]
    IN
    /\ t.pc = "tick_mark"
    /\ grid_levels' = {IF l.id = level.id THEN MarkFilled(l) ELSE l : l \in grid_levels}
    /\ tasks' = [tasks EXCEPT ![p].executed = Append(@, level.id),
                              ![p].n = @ + 1,
                              ![p].pc = "tick_loop"]
    /\ UNCHANGED <<balance, grid_bots, exchange_trade_logs, next_bot_id,
                   next_level_id, initial_balance, result, gate, other_tables>>

\* the end of the loop and the return statement (which raises, see
\* ExecuteGridBotLevels)
ReturnTick(p) ==
    LET t == Task(p) IN
    /\ t.pc = "tick_loop"
    /\ Due(t) = {}
    /\ result' = [Reply("tick", FALSE)
                    EXCEPT !.bot_id = t.bot_id,
                           !.current_price = t.current_price,
                           !.executed_levels = t.executed,
                           !.orders = t.orders,
                           !.placed = t.placed,
                           !.raised = TRUE]
    /\ tasks' = [tasks EXCEPT ![p] = Finished(p)]
    /\ UNCHANGED <<balance, grid_bots, grid_levels, exchange_trade_logs,
                   next_bot_id, next_level_id, initial_balance, gate, other_tables>>

\* the calls of one user that the threads interleave
CreateStep ==
    \E p \in Threads :
        \/ \E a \in ConcurrentArgs : BeginCreate(p, a)
        \/ InsertBot(p)
        \/ InsertLevels(p)
        \/ ReserveInvestment(p)

StopStep ==
    \E p \in Threads :
        \/ \E b \in 1..(next_bot_id - 1) : BeginStop(p, b, BaseArgs.user_id)
        \/ DeactivateBot(p)
        \/ ReturnInvestment(p)

TickStep ==
    \E p \in Threads :
        \/ \E b \in 1..(next_bot_id - 1), pd \in PriceData :
               BeginTick(p, BaseArgs.user_id, b, pd)
        \/ PlaceOrder(p, FALSE, "simulated")
        \/ MarkLevelFilled(p)
        \/ ReturnTick(p)

\* creates and stops of one user, interleaved
NextB == CreateStep \/ StopStep

SpecB == Init /\ [][NextB]_vars

\* ticks, interleaved, of the bots one create has stored
NextT == Create \/ TickStep

SpecT == Init /\ [][NextT]_vars

\* ------------------------------------------------------------- trend gates
\* services/ema_context_service.py.  A context is the dict the provider
\* returns; a key it lacks is None here, a key it has holds <<value>>.
\* dict.get(key, default)
Get(v, default) == IF v = None THEN default ELSE v[1]

\* a reading of the flag that takes only an explicit False as unavailable
UnavailableIfFalse(ema_context) == ema_context.success = <<FALSE>>

\* "if not ema_context.get('success')"
Unavailable(ema_context) == ~Get(ema_context.success, FALSE)

\* a grid policy that looks at the crosses before the signal and its confidence
ShouldGridBotExecuteCrossFirst(ema_context) ==
    LET signal == Get(ema_context.overall_signal, "HOLD")
        confidence == Get(ema_context.confidence, 0)
    IN
    IF Unavailable(ema_context) THEN TRUE
    ELSE IF Get(ema_context.golden_cross, FALSE) THEN FALSE
    ELSE IF Get(ema_context.death_cross, FALSE) THEN FALSE
    ELSE IF signal = "HOLD" THEN TRUE
    ELSE IF confidence < CONFIDENCE_THRESHOLD THEN TRUE
    ELSE IF signal = "BUY" /\ confidence >= CONFIDENCE_THRESHOLD THEN FALSE
    ELSE IF signal = "SELL" /\ confidence >= CONFIDENCE_THRESHOLD THEN FALSE
    ELSE TRUE

\* should_grid_bot_execute
ShouldGridBotExecute(ema_context) ==
    LET signal == Get(ema_context.overall_signal, "HOLD")
        confidence == Get(ema_context.confidence, 0)
    IN
    IF Unavailable(ema_context) THEN TRUE
    ELSE IF signal = "HOLD" THEN TRUE
    ELSE IF confidence < CONFIDENCE_THRESHOLD THEN TRUE
    ELSE IF Get(ema_context.golden_cross, FALSE) THEN FALSE
    ELSE IF Get(ema_context.death_cross, FALSE) THEN FALSE
    ELSE IF signal = "BUY" /\ confidence >= CONFIDENCE_THRESHOLD THEN FALSE
    ELSE IF signal = "SELL" /\ confidence >= CONFIDENCE_THRESHOLD THEN FALSE
    ELSE TRUE

\* a BUY policy that looks at the bearish signals first
DcaBuyBearishFirst(ema_context) ==
    LET trend == Get(ema_context.trend_label, "unknown") IN
    IF Get(ema_context.death_cross, FALSE) THEN FALSE
    ELSE IF trend = "long_term_downtrend" THEN FALSE
    ELSE TRUE

\* should_dca_bot_execute, the branch of bot_side = 'BUY'
DcaBuy(ema_context) ==
    LET trend == Get(ema_context.trend_label, "unknown") IN
    IF Get(ema_context.golden_cross, FALSE) THEN TRUE
    ELSE IF trend = "long_term_uptrend" THEN TRUE
    ELSE IF Get(ema_context.death_cross, FALSE) THEN FALSE
    ELSE IF trend = "long_term_downtrend" THEN FALSE
    ELSE TRUE

\* a SELL policy that looks at the bullish signals first
DcaSellBullishFirst(ema_context) ==
    LET trend == Get(ema_context.trend_label, "unknown") IN
    IF Get(ema_context.golden_cross, FALSE) THEN FALSE
    ELSE IF trend = "long_term_uptrend" THEN FALSE
    ELSE TRUE

\* should_dca_bot_execute, the branch of bot_side = 'SELL'
DcaSell(ema_context) ==
    LET trend == Get(ema_context.trend_label, "unknown") IN
    IF Get(ema_context.death_cross, FALSE) THEN TRUE
    ELSE IF trend = "long_term_downtrend" THEN TRUE
    ELSE IF Get(ema_context.golden_cross, FALSE) THEN FALSE
    ELSE IF trend = "long_term_uptrend" THEN FALSE
    ELSE TRUE

\* should_dca_bot_execute
ShouldDcaBotExecute(ema_context, bot_side) ==
    IF Unavailable(ema_context) THEN TRUE
    ELSE IF bot_side = "BUY" THEN DcaBuy(ema_context)
    ELSE IF bot_side = "SELL" THEN DcaSell(ema_context)
    ELSE TRUE

Optional(S) == {None} \cup {<<x>> : x \in S}

\* the contexts a gate is asked with
Contexts ==
    [success : Optional(BOOLEAN),
     trend_label : Optional({"long_term_uptrend", "long_term_downtrend",
                             "neutral", "unknown"}),
     overall_signal : Optional({"BUY", "SELL", "HOLD"}),
     confidence : Optional({0} \cup ((CONFIDENCE_THRESHOLD - MaxConfidenceGap)
                                      ..(CONFIDENCE_THRESHOLD + MaxConfidenceGap))),
     golden_cross : Optional(BOOLEAN),
     death_cross : Optional(BOOLEAN)]

BotSides == {"BUY", "SELL", "HOLD"}

\* the gate of a DCA run: should_dca_bot_execute(ema_context, bot_side)
GateDca ==
    /\ gate = NoGate
    /\ \E c \in Contexts, side \in BotSides :
           gate' = [kind |-> "dca", ema_context |-> c, bot_side |-> side,
                    should_execute |-> ShouldDcaBotExecute(c, side)]
    /\ UNCHANGED <<balance, grid_bots, grid_levels, exchange_trade_logs,
                   next_bot_id, next_level_id, initial_balance, result, tasks,
                   other_tables>>

\* the gate of a grid run: should_grid_bot_execute(ema_context)
GateGrid ==
    /\ gate = NoGate
    /\ \E c \in Contexts :
           gate' = [kind |-> "grid", ema_context |-> c, bot_side |-> "GRID",
                    should_execute |-> ShouldGridBotExecute(c)]
    /\ UNCHANGED <<balance, grid_bots, grid_levels, exchange_trade_logs,
                   next_bot_id, next_level_id, initial_balance, result, tasks,
                   other_tables>>

\* the request that asked the gate is answered
EndRequest ==
    /\ gate # NoGate
    /\ gate' = NoGate
    /\ UNCHANGED <<balance, grid_bots, grid_levels, exchange_trade_logs,
                   next_bot_id, next_level_id, initial_balance, result, tasks,
                   other_tables>>

NextG == GateDca \/ GateGrid \/ EndRequest

SpecG == Init /\ [][NextG]_vars

\* ------------------------------------------------------------ dca_bot_service
\* create_dca_bot, step 1: the error it returns, or "none"
\* (percentages whole, multipliers in tenths)
ValidateDcaConfig(a) ==
    IF a.buy_amount <= 0 THEN "Buy amount must be positive"
    ELSE IF a.side \notin {"BUY", "SELL"} THEN "Side must be BUY or SELL"
    ELSE IF a.price_deviation_pct <= 0 \/ a.price_deviation_pct > MAX_PERCENT
    THEN "Price deviation must be between 0 and 100%"
    ELSE IF a.take_profit_pct # None
            /\ (a.take_profit_pct[1] <= 0 \/ a.take_profit_pct[1] > MAX_TAKE_PROFIT)
    THEN "Take profit % must be between 0 and 1000"
    ELSE IF a.max_dca_orders < 1 \/ a.max_dca_orders > MAX_DCA_ORDERS
    THEN "Max DCA orders must be between 1 and 100"
    ELSE IF a.stop_loss_pct # None
            /\ (a.stop_loss_pct[1] <= 0 \/ a.stop_loss_pct[1] > MAX_PERCENT)
    THEN "Stop loss % must be between 0 and 100"
    ELSE IF a.price_deviation_multiplier # None
            /\ (a.price_deviation_multiplier[1] < 1
                \/ a.price_deviation_multiplier[1] > MAX_MULTIPLIER * Tenths)
    THEN "Price deviation multiplier must be between 0.1 and 10"
    ELSE IF a.dca_order_size_multiplier # None
            /\ (a.dca_order_size_multiplier[1] < 1
                \/ a.dca_order_size_multiplier[1] > MAX_MULTIPLIER * Tenths)
    THEN "DCA order size multiplier must be between 0.1 and 10"
    ELSE "none"

\* the row "INSERT INTO dca_bots (...) VALUES (..., 1)" adds; the columns the
\* insert leaves out take their defaults (execution_count 0)
DcaRow(a, id) ==
    [id |-> id, user_id |-> a.user_id, exchange_account_id |-> a.exchange_account_id,
     buy_amount |-> a.buy_amount, side |-> a.side,
     max_dca_orders |-> a.max_dca_orders, is_active |-> 1, execution_count |-> 0]

\* the tables and thread state the DCA service never touches
NotDca ==
    UNCHANGED <<balance, grid_bots, grid_levels, next_bot_id, next_level_id,
                initial_balance, tasks, gate, trading_bots, bot_orders>>

CreateDcaBot(a) ==
    LET id == sqlite_sequence["dca_bots"] + 1 IN
    /\ NotDca
    /\ UNCHANGED exchange_trade_logs
    /\ IF ValidateDcaConfig(a) # "none"
       THEN /\ result' = Reply("create_dca_bot", FALSE)
            /\ UNCHANGED <<dca_bots, sqlite_sequence>>
       ELSE /\ id <= MaxBots
            /\ dca_bots' = dca_bots \cup {DcaRow(a, id)}
            /\ sqlite_sequence' = [sqlite_sequence EXCEPT !["dca_bots"] = id]
            /\ result' = [Reply("create_dca_bot", TRUE) EXCEPT !.bot_id = id]

\* get_dca_bot_details: "... FROM dca_bots d JOIN exchange_accounts e ON
\* d.exchange_account_id = e.id WHERE d.id = ? AND d.user_id = ?"
GetDcaBotDetails(bot_id, user_id) ==
    {d \in dca_bots : /\ d.id = bot_id
                      /\ d.user_id = user_id
                      /\ d.exchange_account_id \in Accounts}

\* the bot row after "UPDATE dca_bots SET last_run_at = datetime('now'),
\* execution_count = execution_count + 1 WHERE id = ?"
Executed(bot) == [bot EXCEPT !.execution_count = @ + 1]

RunDcaCycle(bot_id, user_id, LIVE_TRADING_ENABLED, price_data, outcome) ==
    LET found == GetDcaBotDetails(bot_id, user_id)
        bot == TheRow(found)
        r == ExecuteMarketOrderForAccount(
                 exchange_trade_logs, user_id, bot.exchange_account_id, "BUY",
                 [num |-> bot.buy_amount, den |-> 1], LIVE_TRADING_ENABLED,
                 TradeSource("dca_bot", bot_id), price_data, outcome)
    IN
    /\ NotDca
    /\ UNCHANGED sqlite_sequence
    /\ IF found = {}
       THEN /\ result' = Reply("run_dca_cycle", FALSE)
            /\ UNCHANGED <<dca_bots, exchange_trade_logs>>
       ELSE IF bot.is_active = 0
       THEN /\ result' = Reply("run_dca_cycle", FALSE)
            /\ UNCHANGED <<dca_bots, exchange_trade_logs>>
       ELSE /\ Len(r.log) <= MaxRuns
            /\ exchange_trade_logs' = r.log
            /\ dca_bots' = IF r.success
                           THEN (dca_bots \ {bot}) \cup {Executed(bot)}
                           ELSE dca_bots
            /\ result' = [Reply("run_dca_cycle", r.success)
                            EXCEPT !.bot_id = IF r.success THEN bot_id ELSE 0,
                                   !.current_price = IF r.success
                                                     THEN LatestPrice(price_data) ELSE 0,
                                   !.placed = r.placed]

\* stop_dca_bot: "UPDATE dca_bots SET is_active = 0 WHERE id = ? AND user_id = ?";
\* it succeeds when the statement matched a row
StopDcaBot(bot_id, user_id) ==
    LET matched == {d \in dca_bots : d.id = bot_id /\ d.user_id = user_id} IN
    /\ NotDca
    /\ UNCHANGED <<exchange_trade_logs, sqlite_sequence>>
    /\ dca_bots' = (dca_bots \ matched) \cup {[d EXCEPT !.is_active = 0] : d \in matched}
    /\ result' = Reply("stop_dca_bot", matched # {})

\* delete_dca_bot: "DELETE FROM dca_bots WHERE id = ? AND user_id = ?"
DeleteDcaBot(bot_id, user_id) ==
    LET matched == {d \in dca_bots : d.id = bot_id /\ d.user_id = user_id} IN
    /\ NotDca
    /\ UNCHANGED <<exchange_trade_logs, sqlite_sequence>>
    /\ dca_bots' = dca_bots \ matched
    /\ result' = Reply("delete_dca_bot", matched # {})

\* ------------------------------------------------------------ get_bot_details
\* the bot row get_bot_details reads: a user_id that is None or 0 selects by
\* id alone
GetBotDetails(bot_id, user_id) ==
    IF user_id = 0 THEN {b \in grid_bots : b.id = bot_id}
    ELSE BotRows(bot_id, user_id)

\* ------------------------------------------- the bot services, call by call
BaseDcaArgs ==
    [user_id |-> 1, exchange_account_id |-> 1, buy_amount |-> 1, side |-> "BUY",
     price_deviation_pct |-> 1, take_profit_pct |-> None, max_dca_orders |-> 1,
     stop_loss_pct |-> None, price_deviation_multiplier |-> None,
     dca_order_size_multiplier |-> None]

AcceptedDcaArgs ==
    {[BaseDcaArgs EXCEPT !.user_id = u, !.exchange_account_id = u, !.side = sd,
                         !.max_dca_orders = m] :
        u \in Users, sd \in {"BUY", "SELL"}, m \in 1..MaxDcaOrders}

RejectedDcaArgs ==
    {[BaseDcaArgs EXCEPT !.buy_amount = 0],
     [BaseDcaArgs EXCEPT !.side = "HOLD"],
     [BaseDcaArgs EXCEPT !.price_deviation_pct = MAX_PERCENT + 1],
     [BaseDcaArgs EXCEPT !.take_profit_pct = <<0>>],
     [BaseDcaArgs EXCEPT !.max_dca_orders = 0],
     [BaseDcaArgs EXCEPT !.max_dca_orders = MAX_DCA_ORDERS + 1],
     [BaseDcaArgs EXCEPT !.stop_loss_pct = <<MAX_PERCENT + 1>>],
     [BaseDcaArgs EXCEPT !.price_deviation_multiplier = <<0>>],
     [BaseDcaArgs EXCEPT !.dca_order_size_multiplier = <<MAX_MULTIPLIER * Tenths + 1>>]}

\* the grid bot the services are exercised on: two levels, owned by user 1
ServiceArgs == {[BaseArgs EXCEPT !.grid_count = MIN_GRID_COUNT]}

CreateGrid == \E a \in ServiceArgs : CreateGridBot(a, NoFaults) /\ Alone

Details ==
    \E b \in BotIds, u \in Users \cup {0} :
        /\ result' = Reply("details", GetBotDetails(b, u) # {})
        /\ UNCHANGED <<balance, grid_bots, grid_levels, exchange_trade_logs,
                       next_bot_id, next_level_id, initial_balance>>
        /\ Alone

CreateDca == \E a \in AcceptedDcaArgs \cup RejectedDcaArgs : CreateDcaBot(a)

\* a tick of the owner's grid bot at the fallback price
TickGrid ==
    \E u \in Users, b \in BotIds, live \in BOOLEAN :
        /\ BotRows(b, u) # {}
        /\ \E o \in [Eligible(b, LatestPrice(None)) -> Outcomes(live)] :
               ExecuteGridBotLevels(u, b, u, None, live, None, o)
        /\ Alone

\* what the exchange does with the order of a DCA cycle
DcaOutcomes(is_live_mode) ==
    IF is_live_mode THEN {"rejected", "no_status"} ELSE {"simulated"}

RunDca ==
    \E b \in BotIds, u \in Users, live \in BOOLEAN :
        \E o \in DcaOutcomes(live) : RunDcaCycle(b, u, live, None, o)

StopDca == \E b \in BotIds, u \in Users : StopDcaBot(b, u)

DeleteDca == \E b \in BotIds, u \in Users : DeleteDcaBot(b, u)

NextA ==
    \/ CreateGrid \/ Details \/ Stop \/ Delete \/ TickGrid \/ TickNotFound
    \/ CreateDca \/ RunDca \/ StopDca \/ DeleteDca

SpecA == Init /\ [][NextA]_vars

\* ------------------------------------------------------- trading_bot_model
\* the row create_bot inserts; status, total_investment and orders_placed
\* take the defaults of the table
BotRow(id, user_id, bot_type, side, config, is_paper_trading) ==
    [id |-> id, user_id |-> user_id, bot_type |-> bot_type, side |-> side,
     status |-> "active", config |-> config, is_paper_trading |-> is_paper_trading,
     total_investment |-> 0, orders_placed |-> 0]

\* get_bot: "SELECT * FROM trading_bots WHERE id = ?"
GetBot(bot_id) == {b \in trading_bots : b.id = bot_id}

\* get_bot_orders(bot_id): the order rows of a bot
GetBotOrders(bot_id) == {o \in bot_orders : o.bot_id = bot_id}

\* the row add_bot_order inserts for a limit order; amount is the quote sum
\* num / den divided by the price per
BotOrder(id, bot, price, amount, exchange_order_id) ==
    [id |-> id, bot_id |-> bot.id, side |-> bot.side, order_type |-> "limit",
     price |-> price, amount |-> amount, status |-> "pending",
     exchange_order_id |-> exchange_order_id]

\* ----------------------------------------------------- bot_execution_service
\* execute_grid_bot: grid_prices, one price per i in range(grid_count + 1)
GridPrices(config) ==
    [i \in 0..config.grid_count |->
        [base |-> config.lower_price, top |-> config.upper_price, k |-> i,
         den |-> config.grid_count, geo |-> config.mode # "arithmetic"]]

\* base_amount = amount_per_grid / grid_price, amount_per_grid being
\* investment / grid_count
BaseAmount(config, grid_price) ==
    [num |-> config.investment, den |-> config.grid_count, per |-> grid_price]

\* price * amount as the fraction num / den
Notional(price, amount) ==
    IF amount.per = price /\ price.geo
    THEN [num |-> amount.num, den |-> amount.den]
    ELSE [num |-> amount.num * PriceNum(price) * PriceDen(amount.per),
          den |-> amount.den * PriceDen(price) * PriceNum(amount.per)]

\* execute_limit_order: refused by the safety limit, or whatever the exchange
\* does with the order ("placed", or "failed": not configured, or an error)
ExecuteLimitOrder(price, amount, outcome) ==
    LET est_usd_value == Notional(price, amount) IN
    IF est_usd_value.num > MAX_TRADE_AMOUNT_USD * est_usd_value.den THEN FALSE
    ELSE outcome = "placed"

\* the loop of execute_grid_bot over grid_prices[i..], threading the order
\* rows and the last order id
RECURSIVE PlaceGridOrders(_, _, _, _)
PlaceGridOrders(bot, i, outcome, acc) ==
    IF i > bot.config.grid_count THEN acc
    ELSE LET grid_price == GridPrices(bot.config)[i]
             base_amount == BaseAmount(bot.config, grid_price)
             id == acc.last + 1
         IN PlaceGridOrders(bot, i + 1, outcome,
                IF bot.is_paper_trading
                THEN [rows |-> acc.rows \cup {BotOrder(id, bot, grid_price, base_amount, None)},
                      last |-> id]
                ELSE IF ExecuteLimitOrder(grid_price, base_amount, outcome[i])
                THEN [rows |-> acc.rows \cup {BotOrder(id, bot, grid_price, base_amount, <<"EX", id>>)},
                      last |-> id]
                ELSE acc)

\* the statements of execute_grid_bot that raise: the divisions by grid_count
\* and by a grid price of zero
GridBotRaises(config) ==
    \/ config.grid_count = 0
    \/ config.lower_price = 0

\* execute_grid_bot for the bot row just created (api_create_grid_bot)
ExecuteGridBot(bot, outcome) ==
    LET end == PlaceGridOrders(bot, 0, outcome,
                               [rows |-> {}, last |-> sqlite_sequence["bot_orders"]])
    IN
    IF GridBotRaises(bot.config)
    THEN /\ trading_bots' = trading_bots \cup {bot}
         /\ bot_orders' = bot_orders
         /\ sqlite_sequence' = [sqlite_sequence EXCEPT !["trading_bots"] = bot.id]
         /\ result' = Reply("execute_grid_bot", FALSE)
    ELSE /\ end.last <= MaxOrders
         /\ bot_orders' = bot_orders \cup end.rows
         /\ trading_bots' = trading_bots \cup
                {[bot EXCEPT !.total_investment = bot.config.investment,
                             !.orders_placed = Cardinality(end.rows)]}
         /\ sqlite_sequence' = [sqlite_sequence EXCEPT !["trading_bots"] = bot.id,
                                                       !["bot_orders"] = end.last]
         /\ result' = [Reply("execute_grid_bot", TRUE) EXCEPT !.bot_id = bot.id]

\* execute_dca_bot for the bot row just created (api_create_dca_bot): it asks
\* price_sync_service for get_latest_price, which that module does not
\* define, and returns the failure of its except clause
ExecuteDcaBot(bot) ==
    /\ trading_bots' = trading_bots \cup {bot}
    /\ sqlite_sequence' = [sqlite_sequence EXCEPT !["trading_bots"] = bot.id]
    /\ bot_orders' = bot_orders
    /\ result' = Reply("execute_dca_bot", FALSE)

\* a stop that marks a pending order cancelled whatever the exchange answers
OrderAfterStopForced(order, is_paper_trading, cancelled) ==
    IF order.status # "pending" THEN order
    ELSE [order EXCEPT !.status = "cancelled"]

\* stop_bot, one order row of the bot: a pending order is cancelled, unless
\* it is on the exchange and cancel_order fails there
OrderAfterStop(order, is_paper_trading, cancelled) ==
    IF order.status # "pending" THEN order
    ELSE IF ~is_paper_trading /\ order.exchange_order_id # None /\ ~cancelled
    THEN order
    ELSE [order EXCEPT !.status = "cancelled"]

\* the pending orders of a bot that stop_bot has to cancel on the exchange
OnExchange(bot_id) ==
    {o.id : o \in {x \in GetBotOrders(bot_id) :
                      x.status = "pending" /\ x.exchange_order_id # None}}

StopBot(bot_id, cancelled) ==
    LET found == GetBot(bot_id)
        bot == TheRow(found)
        mine == GetBotOrders(bot_id)
    IN
    IF found = {}
    THEN /\ result' = Reply("stop_bot", FALSE)
         /\ UNCHANGED <<trading_bots, bot_orders>>
    ELSE /\ bot_orders' = (bot_orders \ mine) \cup
                {OrderAfterStop(o, bot.is_paper_trading,
                                o.id \in DOMAIN cancelled /\ cancelled[o.id]) : o \in mine}
         /\ trading_bots' = (trading_bots \ {bot}) \cup {[bot EXCEPT !.status = "stopped"]}
         /\ result' = [Reply("stop_bot", TRUE) EXCEPT !.bot_id = bot_id]

\* the tables and thread state the execution service never touches
NotExecution ==
    UNCHANGED <<balance, grid_bots, grid_levels, exchange_trade_logs, next_bot_id,
                next_level_id, initial_balance, tasks, gate, dca_bots>>

\* the routes of the execution service, one request each
GridConfigs ==
    {[lower_price |-> r[1], upper_price |-> r[2], grid_count |-> n,
      investment |-> inv, mode |-> m] :
        r \in PriceRanges, n \in 0..(MaxGrid - 1), inv \in 1..MaxInvest,
        m \in {"arithmetic", "geometric"}}

DcaConfig ==
    [base_order |-> 1, dca_order |-> 1, max_orders |-> 1, price_deviation |-> 1,
     take_profit |-> 1]

ApiCreateGridBot ==
    \E u \in Users, config \in GridConfigs, side \in {"buy", "sell"}, paper \in BOOLEAN :
        LET id == sqlite_sequence["trading_bots"] + 1
            bot == BotRow(id, u, "grid", side, config, paper)
        IN
        /\ id <= MaxBots
        /\ \E outcome \in [0..config.grid_count ->
                               IF paper THEN {"paper"} ELSE {"placed", "failed"}] :
               ExecuteGridBot(bot, outcome)
        /\ NotExecution

ApiCreateDcaBot ==
    \E u \in Users, side \in {"buy", "sell"}, paper \in BOOLEAN :
        LET id == sqlite_sequence["trading_bots"] + 1 IN
        /\ id <= MaxBots
        /\ ExecuteDcaBot(BotRow(id, u, "dca", side, DcaConfig, paper))
        /\ NotExecution

\* api_stop_bot: stop_bot behind the owner test of the route
ApiStopBot ==
    \E u \in Users, b \in BotIds :
        /\ IF \A bot \in GetBot(b) : bot.user_id # u
           THEN /\ result' = Reply("stop_bot", FALSE)
                /\ UNCHANGED <<trading_bots, bot_orders>>
           ELSE \E cancelled \in [OnExchange(b) -> BOOLEAN] : StopBot(b, cancelled)
        /\ UNCHANGED sqlite_sequence
        /\ NotExecution

NextE == ApiCreateGridBot \/ ApiCreateDcaBot \/ ApiStopBot

SpecE == Init /\ [][NextE]_vars

\* ------------------------------------------------------------------ claims
ActiveBots(u) == {b \in grid_bots : b.user_id = u /\ b.is_active = 1}

Invested == [b \in grid_bots |-> b.investment_amount]

\* C1: capital round trip. A successful create_grid_bot takes exactly the
\* investment from the owner's balance B (and from nobody else), and the
\* stop_grid_bot of that bot that follows it directly puts the balance back to
\* exactly B: it adds what the create took.
C1_RoundTrip ==
    [][/\ \A a \in CreateArgs :
            (result'.op = "create" /\ result'.success /\ CreateGridBot(a, NoFaults))
            => balance' = [balance EXCEPT ![a.user_id] = @ - a.investment_amount]
       /\ \A u \in Users :
            (/\ result.op = "create" /\ result.success
             /\ result'.op = "stop" /\ result'.success
             /\ StopGridBot(next_bot_id - 1, u, NoStopFaults))
            => \E b \in grid_bots :
                  /\ b.id = next_bot_id - 1
                  /\ balance' = [balance EXCEPT ![u] = @ + b.investment_amount]
                  /\ result'.returned_investment = b.investment_amount]_vars

\* a bot was created and stopped right away, and its owner has the initial balance
C1_Witness ==
    /\ result.op = "stop" /\ result.success
    /\ \E b \in grid_bots : /\ b.is_active = 0
                            /\ result.returned_investment = b.investment_amount
                            /\ balance[b.user_id] = initial_balance[b.user_id]
    /\ grid_levels # {}
    /\ \A l \in grid_levels : l.is_filled = 0

\* C2: exactly-once capital return. Every user's balance is the initial balance
\* minus the investments of the user's bots that are ACTIVE.
C2_ExactlyOnce ==
    \A u \in Users :
        balance[u] = initial_balance[u] - SumOver(ActiveBots(u), Invested)

\* C3: stop_grid_bot on a bot that is already STOPPED returns a failure and
\* changes neither the bot rows nor any balance.
C3_AlreadyStopped ==
    [][\A b \in BotIds, u \in Users :
          (/\ result'.op = "stop"
           /\ \E bot \in BotRows(b, u) : bot.is_active = 0
           /\ StopGridBot(b, u, NoStopFaults))
          => /\ ~result'.success
             /\ grid_bots' = grid_bots
             /\ balance' = balance]_vars

\* C4: delete_grid_bot on an ACTIVE bot adds the investment to the owner's
\* balance, on a STOPPED bot it changes no balance, and afterwards neither the
\* bot row nor any level row of the bot is left.
C4_DeletePurges ==
    [][\A b \in BotIds, u \in Users, fk \in BOOLEAN :
          (/\ result'.op = "delete" /\ BotRows(b, u) # {}
           /\ DeleteGridBot(b, u, fk, NoStopFaults))
          => LET bot == TheRow(BotRows(b, u)) IN
             /\ result'.success
             /\ balance' = [balance EXCEPT ![u] =
                               @ + (IF bot.is_active = 1
                                    THEN bot.investment_amount ELSE 0)]
             /\ ~\E x \in grid_bots' : x.id = b
             /\ ~\E l \in grid_levels' : l.bot_id = b]_vars

\* the rejections the claim lists, read off the arguments
C5_Rejected(a) ==
    \/ a.grid_count < 2 \/ a.grid_count > 100
    \/ a.lower_price >= a.upper_price
    \/ a.lower_price <= 0 \/ a.upper_price <= 0
    \/ a.investment_amount <= 0
    \/ a.grid_type \notin {"ARITHMETIC", "GEOMETRIC"}
    \/ a.user_id \notin Users
    \/ balance[a.user_id] < a.investment_amount

\* C5: a create_grid_bot call with a grid_count below 2 or above 100, a lower
\* price not below the upper one, a price or an investment that is not positive,
\* an unsupported grid type, an unknown user or a balance below the investment
\* returns success = False and leaves bots, levels and balances as they were.
C5_RejectedCreateLeavesNoTrace ==
    [][\A a \in CreateArgs :
          (result'.op = "create" /\ C5_Rejected(a) /\ CreateGridBot(a, NoFaults))
          => /\ ~result'.success
             /\ grid_bots' = grid_bots
             /\ grid_levels' = grid_levels
             /\ balance' = balance
             /\ exchange_trade_logs' = exchange_trade_logs]_vars

\* a create was rejected while a bot and its levels were in storage
C5_Witness ==
    /\ result.op = "create" /\ ~result.success
    /\ grid_bots # {} /\ grid_levels # {}
    /\ \E a \in CreateArgs : C5_Rejected(a)

\* C6: create_grid_bot is all-or-nothing when writes fail: a create that passes
\* validation either stores the bot, all its levels and the deduction, or, when
\* one of its writes fails, stores nothing and takes nothing.
C6_AllOrNothing ==
    [][\A a \in {x \in CreateArgs : CreateError(x) = "none"} :
       \A f \in CreateFaults(a) :
          (result'.op = "create" /\ CreateGridBot(a, f))
          => IF f = NoFaults
             THEN /\ Cardinality(grid_bots') = Cardinality(grid_bots) + 1
                  /\ Cardinality(grid_levels') = Cardinality(grid_levels) + a.grid_count
                  /\ balance' = [balance EXCEPT ![a.user_id] = @ - a.investment_amount]
             ELSE /\ grid_bots' = grid_bots
                  /\ grid_levels' = grid_levels
                  /\ balance' = balance]_vars

\* the levels of bot b are the n prices lower + i * (upper - lower) / d, i = 0..n-1,
\* each once
HasLevels(b, n, d) ==
    LET S == LevelsOf(b.id) IN
    /\ Cardinality(S) = n
    /\ \A i \in 0..(n - 1) :
          \E l \in S :
              PriceNum(l.level_price) * d
                  = (b.lower_price * d + i * (b.upper_price - b.lower_price))
                    * PriceDen(l.level_price)

\* the stored levels of bot b in ascending order rise strictly by one and the
\* same difference, from lower_price to upper_price
EvenlySpaced(b) ==
    LET q == SortByPrice(LevelsOf(b.id))
        n == Len(q)
        P(i) == q[i].level_price
    IN /\ n >= 2
       /\ PriceNum(P(1)) = b.lower_price * PriceDen(P(1))
       /\ PriceNum(P(n)) = b.upper_price * PriceDen(P(n))
       /\ \A i \in 1..(n - 1) :
             /\ PriceNum(P(i)) * PriceDen(P(i + 1)) < PriceNum(P(i + 1)) * PriceDen(P(i))
             /\ (PriceNum(P(i + 1)) * PriceDen(P(i)) - PriceNum(P(i)) * PriceDen(P(i + 1)))
                    * PriceDen(P(1)) * PriceDen(P(2))
                = (PriceNum(P(2)) * PriceDen(P(1)) - PriceNum(P(1)) * PriceDen(P(2)))
                    * PriceDen(P(i)) * PriceDen(P(i + 1))

ArithmeticBots == {b \in grid_bots : b.grid_type = "ARITHMETIC"}

\* C7 as stated: an ARITHMETIC bot has grid_count + 1 levels, at
\* lower + i * (upper - lower) / grid_count for i = 0..grid_count.
C7_Original ==
    \A b \in ArithmeticBots :
        HasLevels(b, b.grid_count + 1, b.grid_count) /\ EvenlySpaced(b)

\* C7 amended: an ARITHMETIC bot has grid_count levels, at
\* lower + i * (upper - lower) / (grid_count - 1) for i = 0..grid_count - 1:
\* strictly increasing, equally spaced, the first lower and the last upper.
C7_ArithmeticLevels ==
    \A b \in ArithmeticBots :
        HasLevels(b, b.grid_count, b.grid_count - 1) /\ EvenlySpaced(b)

\* an ARITHMETIC bot with an odd number of levels is stored
C7_Witness ==
    \E b \in ArithmeticBots :
        /\ b.grid_count = 3
        /\ Cardinality(LevelsOf(b.id)) = 3
        /\ result.op = "create" /\ result.success

\* the levels of bot b tagged BUY are exactly the first m in ascending price
FirstAreBuy(b, m) ==
    LET q == SortByPrice(LevelsOf(b.id)) IN
    /\ m <= Len(q)
    /\ \A i \in 1..Len(q) : (q[i].order_type = "BUY") <=> (i <= m)
    /\ \A i \in 1..Len(q) : q[i].order_type \in {"BUY", "SELL"}

\* C8 as stated: the first floor((count + 1) / 2) levels are BUY, the rest SELL.
C8_Original ==
    \A b \in grid_bots : FirstAreBuy(b, (b.grid_count + 1) \div 2)

\* C8 amended: the first floor(count / 2) of the count levels are BUY, the rest
\* SELL, whatever the market price and whatever was filled since.
C8_Tagging ==
    \A b \in grid_bots : FirstAreBuy(b, b.grid_count \div 2)

\* a bot with three levels has been ticked: one BUY level, two SELL levels
C8_Witness ==
    \E b \in grid_bots :
        /\ b.grid_count = 3
        /\ Cardinality({l \in LevelsOf(b.id) : l.order_type = "BUY"}) = 1
        /\ Cardinality({l \in LevelsOf(b.id) : l.order_type = "SELL"}) = 2
        /\ result.op = "tick" /\ result.raised

\* the 1% band of the claim: p <= 1.01 * price for BUY, p >= 0.99 * price for SELL
\* (p in hundredths)
C9_InBand(l, p) ==
    \/ l.order_type = "BUY" /\ LevelTimesGeq(101, l.level_price, p)
    \/ l.order_type = "SELL" /\ LevelTimesLeq(99, l.level_price, p)

Range(q) == {q[i] : i \in 1..Len(q)}

\* C9: in one tick at price p an order is issued for a level iff the level is
\* PENDING and in the band; no order is issued for a FILLED level, and none twice.
C9_Eligibility ==
    [][(result'.op = "tick" /\ result'.raised)
       => /\ Range(result'.orders)
               = {l.id : l \in {x \in LevelsOf(result'.bot_id) :
                                   /\ x.is_filled = 0
                                   /\ C9_InBand(x, result'.current_price)}}
          /\ Len(result'.orders) = Cardinality(Range(result'.orders))]_vars

\* a tick issued an order for one level and none for another PENDING level
\* and none for a FILLED level of the same bot
C9_Witness ==
    /\ result.op = "tick" /\ Len(result.orders) = 1
    /\ \E l, m \in grid_levels :
          /\ l.bot_id = m.bot_id /\ l.id # m.id
          /\ l.is_filled = 1 /\ l.id \notin Range(result.orders)
          /\ m.is_filled = 0 /\ m.id \notin Range(result.orders)

\* C10: a FILLED level stays FILLED, with its timestamp, for as long as it
\* exists, and a level has a fill timestamp exactly when it is FILLED.
C10_FillMonotonic ==
    /\ [](\A l \in grid_levels :
             /\ l.is_filled \in {0, 1}
             /\ (l.is_filled = 1) <=> (l.filled_at # None))
    /\ [][\A l \in grid_levels : \A m \in grid_levels' :
             (m.id = l.id /\ l.is_filled = 1)
             => (m.is_filled = 1 /\ m.filled_at = l.filled_at)]_vars

\* a FILLED level went through a stop of its bot and a later tick
C10_Witness ==
    /\ result.op = "tick"
    /\ \E l \in grid_levels :
          /\ l.is_filled = 1 /\ l.id \notin Range(result.orders)
          /\ \E b \in grid_bots : b.id = l.bot_id /\ b.is_active = 0

AllIdle == \A p \in Threads : Task(p).pc = "idle"

FilledLevels == {l \in grid_levels : l.is_filled = 1}

\* C11: ticks of one bot that run concurrently fill a level once and log it
\* once: whenever no tick is in progress the trade log holds exactly one entry
\* for every FILLED level, never two.
C11_OneFillOneLog ==
    AllIdle => Len(exchange_trade_logs) = Cardinality(FilledLevels)

\* C17: creates and stops of one user that run concurrently lose no update:
\* once all calls have finished, every balance is the initial balance minus the
\* investments of the user's ACTIVE bots.
C17_NoLostUpdate ==
    AllIdle => \A u \in Users :
                  balance[u] = initial_balance[u] - SumOver(ActiveBots(u), Invested)

\* the levels whose outcome the caller of a tick gets back: the dict of the
\* return statement lists the executed levels, an exception carries nothing
ReportedLevels(r) == IF r.raised THEN {} ELSE Range(r.executed_levels)

\* C12: a tick in which the order of one eligible level fails and the order of
\* another succeeds leaves the failing level PENDING, makes the succeeding level
\* FILLED, and hands both outcomes back to its caller.
C12_PartialBatch ==
    [][(/\ result'.op = "tick" /\ result'.bot_id # 0
        /\ result'.executed_levels # <<>>
        /\ Range(result'.executed_levels) # Range(result'.orders))
       => /\ \A l \in grid_levels' :
                /\ l.id \in Range(result'.executed_levels) => l.is_filled = 1
                /\ l.id \in Range(result'.orders) \ Range(result'.executed_levels)
                       => l.is_filled = 0
          /\ Range(result'.orders) \subseteq ReportedLevels(result')]_vars

\* the entries a call appended to the trade log
Appended == SubSeq(exchange_trade_logs', Len(exchange_trade_logs) + 1,
                   Len(exchange_trade_logs'))

\* C13: a tick in SIMULATED mode never calls place_market_order; for every
\* eligible PENDING level it appends exactly one log entry, with status
\* SIMULATED, a synthesized order id and total_value = amount * price at the
\* latest known price, and the level becomes FILLED.
C13_SimulatedExecution ==
    [][\A u \in Users, b \in BotIds, amt \in {None, <<1>>}, pd \in PriceData :
          (/\ result'.op = "tick" /\ result'.raised
           /\ BotRows(b, u) # {}
           /\ ExecuteGridBotLevels(u, b, u, amt, FALSE, pd,
                                   [l \in Eligible(b, LatestPrice(pd)) |-> "simulated"]))
          => /\ result'.placed = 0
             /\ Len(Appended) = Cardinality(Eligible(b, LatestPrice(pd)))
             /\ \A i \in 1..Len(Appended) :
                   LET e == Appended[i] IN
                   /\ e.status = "SIMULATED"
                   /\ e.exchange_order_id # None
                   /\ e.price = LatestPrice(pd)
                   /\ e.amount = AmountPerOrder(TheRow(BotRows(b, u)), amt)
                   /\ e.total_value.num * e.amount.den
                          = e.amount.num * e.price * e.total_value.den
             /\ \A l \in grid_levels' :
                   l.id \in Eligible(b, LatestPrice(pd)) => l.is_filled = 1]_vars

\* a simulated tick executed a level: one SIMULATED entry, no exchange call
C13_Witness ==
    /\ result.op = "tick" /\ result.executed_levels # <<>> /\ result.placed = 0
    /\ exchange_trade_logs # <<>>
    /\ exchange_trade_logs[Len(exchange_trade_logs)].status = "SIMULATED"
    /\ \E l \in grid_levels : l.id \in Range(result.executed_levels) /\ l.is_filled = 1

\* C14: with no known price for the symbol a simulated execution fails: the
\* tick executes no level, appends no trade log entry and leaves every level as
\* it was.
C14_PriceUnavailable ==
    [][\A u \in Users, b \in BotIds, amt \in {None, <<1>>} :
          (/\ result'.op = "tick" /\ result'.raised
           /\ BotRows(b, u) # {}
           /\ ExecuteGridBotLevels(u, b, u, amt, FALSE, None,
                                   [l \in Eligible(b, LatestPrice(None)) |-> "simulated"]))
          => /\ result'.executed_levels = <<>>
             /\ Appended = <<>>
             /\ grid_levels' = grid_levels]_vars

\* C15: every trade log entry has a status among SIMULATED, FILLED and ERROR,
\* and an ERROR entry carries an error message.
C15_LogStatuses ==
    \A i \in 1..Len(exchange_trade_logs) :
        LET e == exchange_trade_logs[i] IN
        /\ e.status \in {"SIMULATED", "FILLED", "ERROR"}
        /\ e.status = "ERROR" => e.error_message # None

\* C16: every call of execute_market_order_for_account appends exactly one
\* trade log record: a tick appends as many records as it issued orders.
C16_OneLogPerCall ==
    [][result'.op = "tick" => Len(Appended) = Len(result'.orders)]_vars

\* the fields of the gate's context as the policies read them
GateTrend == Get(gate.ema_context.trend_label, "unknown")

GateGolden == Get(gate.ema_context.golden_cross, FALSE)

GateDeath == Get(gate.ema_context.death_cross, FALSE)

GateAvailable == Get(gate.ema_context.success, FALSE)

BuyGate == gate.kind = "dca" /\ gate.bot_side = "BUY" /\ GateAvailable

\* C18 as stated: a BUY gate permits on an uptrend, a golden cross or a
\* neutral/unknown trend, and suppresses on a downtrend or a death cross.
C18_Original ==
    BuyGate =>
        /\ (GateTrend = "long_term_uptrend" \/ GateGolden
               \/ GateTrend \in {"neutral", "unknown"}) => gate.should_execute
        /\ (GateTrend = "long_term_downtrend" \/ GateDeath) => ~gate.should_execute

\* C18 amended: a BUY gate permits when golden_cross is set or the trend is
\* long_term_uptrend; failing both it suppresses when death_cross is set or the
\* trend is long_term_downtrend; in every other case it permits.
C18_DcaBuyGating ==
    BuyGate =>
        (gate.should_execute
            <=> (\/ GateGolden \/ GateTrend = "long_term_uptrend"
                 \/ (~GateDeath /\ GateTrend # "long_term_downtrend")))

\* a BUY gate was asked on a downtrend with a golden cross, and permitted
C18_Witness ==
    /\ BuyGate /\ GateTrend = "long_term_downtrend" /\ GateGolden
    /\ gate.should_execute

\* swaps long_term_uptrend with long_term_downtrend and golden_cross with
\* death_cross
Mirror(c) ==
    [c EXCEPT !.trend_label =
                 IF @ = <<"long_term_uptrend">> THEN <<"long_term_downtrend">>
                 ELSE IF @ = <<"long_term_downtrend">> THEN <<"long_term_uptrend">>
                 ELSE @,
              !.golden_cross = c.death_cross,
              !.death_cross = c.golden_cross]

\* C19: the SELL gate is the mirror of the BUY gate: on every context c it
\* decides what the BUY gate decides on the mirrored context.
C19_SellMirrorsBuy ==
    (gate.kind = "dca" /\ gate.bot_side = "SELL")
        => gate.should_execute = ShouldDcaBotExecute(Mirror(gate.ema_context), "BUY")

\* a SELL gate was suppressed on an available uptrend without a death cross
C19_Witness ==
    /\ gate.kind = "dca" /\ gate.bot_side = "SELL" /\ GateAvailable
    /\ GateTrend = "long_term_uptrend" /\ ~GateDeath
    /\ ~gate.should_execute

\* C20: fail open. When the context is unavailable (success false or missing)
\* the DCA gate, for every bot side, and the grid gate permit execution,
\* whatever the other fields hold.
C20_FailOpen ==
    (gate.kind \in {"dca", "grid"} /\ gate.ema_context.success \in {None, <<FALSE>>})
        => gate.should_execute

\* a gate permitted on a context without a success flag that shows a death
\* cross, a downtrend and a strong SELL signal
C20_Witness ==
    /\ gate.kind \in {"dca", "grid"} /\ gate.ema_context.success = None
    /\ GateDeath /\ GateTrend = "long_term_downtrend"
    /\ gate.ema_context.overall_signal = <<"SELL">>
    /\ Get(gate.ema_context.confidence, 0) >= CONFIDENCE_THRESHOLD
    /\ gate.should_execute

\* ---------------------------------------------------------------- C28
\* the fields of the gate's context as the grid policy reads them
GateSignal == Get(gate.ema_context.overall_signal, "HOLD")

GateConfidence == Get(gate.ema_context.confidence, 0)

GridGate == gate.kind = "grid" /\ GateAvailable

GateStrong == GateSignal # "HOLD" /\ GateConfidence >= CONFIDENCE_THRESHOLD

\* C28 as stated: on an available context the grid gate pauses whenever a
\* golden or death cross is set and whenever the signal is BUY or SELL with
\* confidence >= 60, and permits when the signal is HOLD or the confidence
\* is below 60.
C28_Original ==
    GridGate =>
        /\ (GateGolden \/ GateDeath) => ~gate.should_execute
        /\ (GateSignal \in {"BUY", "SELL"} /\ GateConfidence >= CONFIDENCE_THRESHOLD)
               => ~gate.should_execute
        /\ (GateSignal = "HOLD" \/ GateConfidence < CONFIDENCE_THRESHOLD)
               => gate.should_execute

\* C28 amended: on an available context the grid gate permits when the signal
\* is HOLD or the confidence is below 60, whether or not a cross is set; only
\* otherwise does it pause on a golden cross, a death cross or a BUY or SELL
\* signal.
C28_GridGating ==
    GridGate =>
        /\ (GateSignal = "HOLD" \/ GateConfidence < CONFIDENCE_THRESHOLD)
               => gate.should_execute
        /\ (GateStrong /\ (GateGolden \/ GateDeath \/ GateSignal \in {"BUY", "SELL"}))
               => ~gate.should_execute

\* a grid gate was asked on a HOLD signal with a golden cross, and permitted
C28_Witness ==
    /\ GridGate
    /\ GateGolden
    /\ gate.ema_context.overall_signal = <<"HOLD">>
    /\ GateConfidence >= CONFIDENCE_THRESHOLD
    /\ gate.should_execute

\* ---------------------------------------------------------------- C25
\* the levels a step marked filled
NewlyFilled ==
    {l.id : l \in {x \in grid_levels' : x.is_filled = 1}}
        \ {l.id : l \in {x \in grid_levels : x.is_filled = 1}}

\* C25: a tick for an existing bot of the caller returns a result, it does
\* not raise, with success = True and executed_levels listing exactly the
\* levels the call marked FILLED.
C25_TickReturns ==
    [][(result'.op = "tick" /\ result'.bot_id # 0)
          => /\ ~result'.raised
             /\ result'.success
             /\ Range(result'.executed_levels) = NewlyFilled]_vars

\* ---------------------------------------------------------------- C29
\* the successful log entries of a bot, as indices of the log
Spent(b) ==
    {i \in DOMAIN exchange_trade_logs :
        /\ exchange_trade_logs[i].trade_source = TradeSource("grid_bot", b.id)
        /\ exchange_trade_logs[i].status \in {"SIMULATED", "FILLED"}}

\* the amount a tick uses when the caller passes none
DefaultAmount(b) == [num |-> b.investment_amount, den |-> b.grid_count]

\* C29: for every grid bot whose ticks all used the default per-order amount,
\* the sum of total_value over its successful log entries is at most its
\* investment_amount (total_value is in hundredths over den = grid_count).
C29_SpendingWithinReservation ==
    \A b \in grid_bots :
        (\A i \in Spent(b) : exchange_trade_logs[i].amount = DefaultAmount(b))
            => SumOver(Spent(b), [i \in Spent(b) |-> exchange_trade_logs[i].total_value.num])
                   <= b.investment_amount * b.grid_count * Hundredths

\* ---------------------------------------------------------------- C21
\* bot_id is a grid bot, a DCA bot, of somebody other than user_id
ForeignGrid(bot_id, user_id) ==
    \E b \in grid_bots : b.id = bot_id /\ b.user_id # user_id

ForeignDca(bot_id, user_id) ==
    \E d \in dca_bots : d.id = bot_id /\ d.user_id # user_id

\* the step refused: a failure, and no bot, level, log row or balance changed
Refused ==
    /\ ~result'.success
    /\ UNCHANGED <<balance, grid_bots, grid_levels, exchange_trade_logs, dca_bots>>

\* C21: for every bot and every user other than its owner, get_bot_details,
\* execute_grid_bot_levels, stop_grid_bot, delete_grid_bot, run_dca_cycle,
\* stop_dca_bot and delete_dca_bot called with that user find no bot, return
\* a failure and leave the bots, the levels, the trade log and every balance
\* unchanged.
C21_OwnershipNotFound ==
    [][\A b \in BotIds, u \in Users :
          /\ ForeignGrid(b, u) =>
                /\ GetBotDetails(b, u) = {}
                /\ ExecuteGridBotLevels(u, b, u, None, FALSE, None, <<>>) => Refused
                /\ StopGridBot(b, u, NoStopFaults) => Refused
                /\ \A fk \in BOOLEAN : DeleteGridBot(b, u, fk, NoStopFaults) => Refused
          /\ ForeignDca(b, u) =>
                /\ GetDcaBotDetails(b, u) = {}
                /\ \A live \in BOOLEAN : \A o \in DcaOutcomes(live) :
                       RunDcaCycle(b, u, live, None, o) => Refused
                /\ StopDcaBot(b, u) => Refused
                /\ DeleteDcaBot(b, u) => Refused]_vars

\* a stop of the DCA bot was just refused while the bot and a grid bot exist:
\* the caller was not the owner
C21_Witness ==
    /\ result.op = "stop_dca_bot"
    /\ ~result.success
    /\ \E d \in dca_bots : d.is_active = 1
    /\ grid_bots # {}

\* ---------------------------------------------------------------- C22
\* the bots that are stopped before the step
StoppedGrid == {b \in grid_bots : b.is_active = 0}

StoppedDca == {d \in dca_bots : d.is_active = 0}

\* the log rows the step appended for a bot
AppendedFor(kind, bot_id) ==
    {i \in DOMAIN Appended : Appended[i].trade_source = TradeSource(kind, bot_id)}

\* C22: no tick acts on a stopped bot: a step of execute_grid_bot_levels
\* issues no order, appends no log row and marks no level of a stopped
\* grid bot, a step of run_dca_cycle appends no log row for a stopped DCA bot
\* and leaves its execution counter alone, and no step makes a stopped bot
\* active again.
C22_TicksOnlyWhileActive ==
    [][/\ \A b \in StoppedGrid :
             /\ result'.op = "tick" =>
                    /\ AppendedFor("grid_bot", b.id) = {}
                    /\ {l \in grid_levels' : l.bot_id = b.id} = LevelsOf(b.id)
                    /\ (result'.bot_id = b.id => result'.orders = <<>>)
             /\ \A c \in grid_bots' : c.id = b.id => c.is_active = 0
       /\ \A d \in StoppedDca :
             /\ result'.op = "run_dca_cycle" =>
                    /\ AppendedFor("dca_bot", d.id) = {}
                    /\ d \in dca_bots'
             /\ \A c \in dca_bots' : c.id = d.id => c.is_active = 0]_vars

\* ---------------------------------------------------------------- C23
\* C23: the trade log is append-only and outlives bots: no create, tick, stop
\* or delete of a grid or DCA bot removes or changes a row that is already in
\* the log, so the rows of a bot are still there after the bot is deleted.
C23_AppendOnly ==
    [][/\ Len(exchange_trade_logs') >= Len(exchange_trade_logs)
       /\ \A i \in DOMAIN exchange_trade_logs :
              exchange_trade_logs'[i] = exchange_trade_logs[i]]_vars

\* a grid bot was just deleted and a log row of it is still in the log
C23_Witness ==
    /\ result.op = "delete"
    /\ result.success
    /\ grid_bots = {}
    /\ \E i \in DOMAIN exchange_trade_logs :
           exchange_trade_logs[i].trade_source = TradeSource("grid_bot", 1)

\* ---------------------------------------------------------------- C26
\* C26: after any sequence of run_dca_cycle calls the execution_count of a
\* DCA bot never exceeds its max_dca_orders.
C26_MaxDcaOrders ==
    \A d \in dca_bots : d.execution_count <= d.max_dca_orders

\* ---------------------------------------------------------------- C27
\* the sum of the execution counters
Executions(bots) == SumOver(bots, [d \in bots |-> d.execution_count])

\* C27: every order run_dca_cycle executes has the side configured on its
\* bot, and execution_count goes up by exactly 1 on a successful cycle and by
\* 0 on a failed one.
C27_DcaSide ==
    [][result'.op = "run_dca_cycle" =>
          /\ \A d \in dca_bots :
                 \A i \in AppendedFor("dca_bot", d.id) : Appended[i].side = d.side
          /\ Executions(dca_bots') - Executions(dca_bots)
                 = IF result'.success THEN 1 ELSE 0]_vars

\* ---------------------------------------------------------------- C30
\* the sum of price * amount over a set of order rows, as a fraction
RECURSIVE TotalNotional(_)
TotalNotional(orders) ==
    IF orders = {} THEN [num |-> 0, den |-> 1]
    ELSE LET o == CHOOSE x \in orders : TRUE
             n == Notional(o.price, o.amount)
             rest == TotalNotional(orders \ {o})
         IN [num |-> n.num * rest.den + rest.num * n.den, den |-> n.den * rest.den]

\* the paper grid bots that execute_grid_bot has set up and nobody stopped
PaperGridBots ==
    {b \in trading_bots : /\ b.bot_type = "grid"
                          /\ b.is_paper_trading
                          /\ b.status = "active"
                          /\ ~GridBotRaises(b.config)}

\* C30: execute_grid_bot in paper mode records one pending order per computed
\* grid price, and the sum of price * amount over those orders equals the
\* total_investment it records for the bot, which is the configured investment.
C30_PaperGridNotional ==
    \A b \in PaperGridBots :
        LET mine == GetBotOrders(b.id)
            grid_prices == GridPrices(b.config)
            total == TotalNotional(mine)
        IN
        /\ \A i \in DOMAIN grid_prices :
               Cardinality({o \in mine : o.price = grid_prices[i]
                                         /\ o.status = "pending"}) = 1
        /\ Cardinality(mine) = Cardinality(DOMAIN grid_prices)
        /\ b.total_investment = b.config.investment
        /\ total.num = b.total_investment * total.den

\* ---------------------------------------------------------------- C24
\* C24: stop_bot on a live bot ends with the bot stopped and a success result
\* whichever cancellations fail on the exchange; the pending orders whose
\* cancellation succeeded, and those that are not on the exchange, are
\* cancelled, those whose cancellation failed stay pending, and an order that
\* is not pending is left as it is.
C24_StopNotAborted ==
    [][\A bot \in trading_bots : \A cancelled \in [OnExchange(bot.id) -> BOOLEAN] :
          (~bot.is_paper_trading /\ StopBot(bot.id, cancelled)) =>
              /\ result'.success
              /\ \E b \in trading_bots' : b.id = bot.id /\ b.status = "stopped"
              /\ \A o \in GetBotOrders(bot.id) :
                     IF o.status # "pending" THEN o \in bot_orders'
                     ELSE IF o.id \in OnExchange(bot.id) /\ ~cancelled[o.id]
                     THEN o \in bot_orders'
                     ELSE [o EXCEPT !.status = "cancelled"] \in bot_orders']_vars

\* a live bot was just stopped with success while one of its orders could not
\* be cancelled and another one was
C24_Witness ==
    /\ result.op = "stop_bot"
    /\ result.success
    /\ \E b \in trading_bots :
           /\ ~b.is_paper_trading
           /\ b.status = "stopped"
           /\ \E o \in GetBotOrders(b.id) :
                  o.status = "pending" /\ o.exchange_order_id # None
           /\ \E o \in GetBotOrders(b.id) :
                  o.status = "cancelled" /\ o.exchange_order_id # None

====
